---- MODULE Spec2Model ----
(***************************************************************************)
(* A model of the rule store (RulesManager), the metrics journal           *)
(* (OperationMetrics) and the handlers of app.py that drive them.          *)
(*                                                                         *)
(* Text is modelled as a sequence of one-character strings, so that        *)
(* splitting, trimming and substring search are computed and not assumed.  *)
(* A file is its character content; a missing file is exists = FALSE.      *)
(***************************************************************************)
EXTENDS Integers, Sequences, FiniteSets, TLC

VARIABLES
    rules_file,     \* the rule file: [exists, content]
    backups,        \* rule-file backups: timestamp of the name -> content
    now,            \* the wall clock in seconds (datetime.now(), strftime resolution)
    save,           \* position and locals of the api_rules POST / save_rules in flight
    response,       \* the last response of api_rules
    metrics_file,   \* metrics.json: [readable, data]
    clock,          \* number of record_* calls made so far (their timestamps)
    call,           \* the last record_* call: its arguments and I/O outcomes
    history,        \* every entry handed to _save_metrics successfully, oldest first
    script,         \* the inputs a scripted driver repeats (SpecCap)
    query,          \* the last read-only call: its arguments and what it returned
    log_file,       \* the log file read by LogMonitor: [exists, lines, mtime]
                    \* (mtime: the order of the file's last write)
    log_backups,    \* the files <log file>.backup.<stamp>: stamp -> [mtime, lines]
    requests,       \* the api_execute request each server thread is handling
    server          \* the module serving ("app" or "simple_app") and whether
                    \* the server handles requests on parallel threads

vars ==
    <<rules_file, backups, now, save, response, metrics_file, clock, call, history, script,
      query, log_file, log_backups, requests, server>>
serviceVars == <<query, log_file, log_backups, requests, server>>
ruleVars == <<rules_file, backups, now, save, response>>
metricVars == <<metrics_file, clock, call, history, script>>

Min(a, b) == IF a < b THEN a ELSE b

(***************************************************************************)
(* Text                                                                    *)
(***************************************************************************)
NL == "\n"
PIPE == "|"
HASH == "#"
QUOTE == "\""
SPACE == " "
\* the end-of-line marker the csv parser is fed after the characters of a line
EOL == "<EOL>"

IsSpace(c) == c \in {SPACE, NL}

RECURSIVE LStrip(_)
LStrip(s) == IF s # <<>> /\ IsSpace(Head(s)) THEN LStrip(Tail(s)) ELSE s

RECURSIVE RStrip(_)
RStrip(s) == IF s # <<>> /\ IsSpace(s[Len(s)]) THEN RStrip(SubSeq(s, 1, Len(s) - 1)) ELSE s

\* str.strip()
Strip(s) == RStrip(LStrip(s))

\* str.startswith
StartsWith(s, p) == Len(s) >= Len(p) /\ SubSeq(s, 1, Len(p)) = p

\* p in s
Contains(s, p) == \E i \in 1..(Len(s) - Len(p) + 1) : SubSeq(s, i, i + Len(p) - 1) = p

LowerChar(c) ==
    CASE c = "A" -> "a" [] c = "B" -> "b" [] c = "C" -> "c" [] c = "D" -> "d"
      [] c = "E" -> "e" [] c = "F" -> "f" [] c = "G" -> "g" [] c = "H" -> "h"
      [] c = "I" -> "i" [] c = "J" -> "j" [] c = "K" -> "k" [] c = "L" -> "l"
      [] c = "M" -> "m" [] c = "N" -> "n" [] c = "O" -> "o" [] c = "P" -> "p"
      [] c = "Q" -> "q" [] c = "R" -> "r" [] c = "S" -> "s" [] c = "T" -> "t"
      [] c = "U" -> "u" [] c = "V" -> "v" [] c = "W" -> "w" [] c = "X" -> "x"
      [] c = "Y" -> "y" [] c = "Z" -> "z" [] OTHER -> c

\* str.lower()
Lower(s) == [i \in 1..Len(s) |-> LowerChar(s[i])]

RECURSIVE Concat(_)
Concat(ss) == IF ss = <<>> THEN <<>> ELSE Head(ss) \o Concat(Tail(ss))

\* where the line that starts at position start ends: at its newline, or at the
\* end of a text that has none
LineEnd(text, start) ==
    CHOOSE e \in start..Len(text) :
        /\ text[e] = NL \/ e = Len(text)
        /\ \A d \in start..(e - 1) : text[d] # NL

\* iterating a text file (readlines): the lines of the content from position
\* start on, in order, each with its newline
RECURSIVE LinesFrom(_, _)
LinesFrom(text, start) ==
    IF start > Len(text) THEN <<>>
    ELSE LET e == LineEnd(text, start)
         IN  <<SubSeq(text, start, e)>> \o LinesFrom(text, e + 1)

ReadLines(text) == LinesFrom(text, 1)

(***************************************************************************)
(* csv.reader(f, delimiter='|'): the excel dialect (quotechar '"',         *)
(* doublequote, not strict), one row per record; a quoted field may span   *)
(* lines, so a row is not always one line.                                 *)
(***************************************************************************)
ParseReset == [state |-> "START_RECORD", field |-> <<>>, fields |-> <<>>]

SaveField(p) == [p EXCEPT !.fields = Append(p.fields, p.field), !.field = <<>>]

AddChar(p, c) == [p EXCEPT !.field = Append(p.field, c)]

AfterNewline(c) == IF c = EOL THEN "START_RECORD" ELSE "EAT_CRNL"

StartField(p, c) ==
    IF c \in {NL, EOL} THEN [SaveField(p) EXCEPT !.state = AfterNewline(c)]
    ELSE IF c = QUOTE THEN [p EXCEPT !.state = "IN_QUOTED_FIELD"]
    ELSE IF c = PIPE THEN [SaveField(p) EXCEPT !.state = "START_FIELD"]
    ELSE [AddChar(p, c) EXCEPT !.state = "IN_FIELD"]

ProcessChar(p, c) ==
    CASE p.state = "START_RECORD" ->
            IF c = EOL THEN p
            ELSE IF c = NL THEN [p EXCEPT !.state = "EAT_CRNL"]
            ELSE StartField(p, c)
      [] p.state = "START_FIELD" -> StartField(p, c)
      [] p.state = "IN_FIELD" ->
            IF c \in {NL, EOL} THEN [SaveField(p) EXCEPT !.state = AfterNewline(c)]
            ELSE IF c = PIPE THEN [SaveField(p) EXCEPT !.state = "START_FIELD"]
            ELSE AddChar(p, c)
      [] p.state = "IN_QUOTED_FIELD" ->
            IF c = EOL THEN p
            ELSE IF c = QUOTE THEN [p EXCEPT !.state = "QUOTE_IN_QUOTED_FIELD"]
            ELSE AddChar(p, c)
      [] p.state = "QUOTE_IN_QUOTED_FIELD" ->
            IF c = QUOTE THEN [AddChar(p, c) EXCEPT !.state = "IN_QUOTED_FIELD"]
            ELSE IF c = PIPE THEN [SaveField(p) EXCEPT !.state = "START_FIELD"]
            ELSE IF c \in {NL, EOL} THEN [SaveField(p) EXCEPT !.state = AfterNewline(c)]
            ELSE [AddChar(p, c) EXCEPT !.state = "IN_FIELD"]
      [] p.state = "EAT_CRNL" ->
            IF c = NL THEN p
            ELSE IF c = EOL THEN [p EXCEPT !.state = "START_RECORD"]
            ELSE [p EXCEPT !.state = "ERROR"]
      [] OTHER -> p

\* the parser fed the characters line[lo..hi] in order, until csv.Error
RECURSIVE ProcessChars(_, _, _, _)
ProcessChars(p, line, lo, hi) ==
    IF lo > hi THEN p
    ELSE IF lo = hi THEN ProcessChar(p, line[lo])
    ELSE LET mid == (lo + hi) \div 2
             q == ProcessChars(p, line, lo, mid)
         IN  IF q.state = "ERROR" THEN q ELSE ProcessChars(q, line, mid + 1, hi)

\* the characters of one line, then the end-of-line marker
ProcessLine(p, line) ==
    LET q == ProcessChars(p, line, 1, Len(line))
    IN  IF q.state = "ERROR" THEN q ELSE ProcessChar(q, EOL)

\* one __next__ of the reader from line i on: the row and the next line, the
\* end of the input (stop), or csv.Error (error)
RECURSIVE ReadRow(_, _, _)
ReadRow(lines, i, p) ==
    IF i > Len(lines)
    THEN IF p.field # <<>> \/ p.state = "IN_QUOTED_FIELD"
         THEN [stop |-> FALSE, error |-> FALSE, row |-> SaveField(p).fields, next |-> i]
         ELSE [stop |-> TRUE, error |-> FALSE, row |-> <<>>, next |-> i]
    ELSE LET q == ProcessLine(p, lines[i])
         IN  IF q.state = "ERROR"
             THEN [stop |-> TRUE, error |-> TRUE, row |-> <<>>, next |-> i]
             ELSE IF q.state = "START_RECORD"
             THEN [stop |-> FALSE, error |-> FALSE, row |-> q.fields, next |-> i + 1]
             ELSE ReadRow(lines, i + 1, q)

\* the rows the reader yields before it stops or raises
RECURSIVE ReadRows(_, _)
ReadRows(lines, i) ==
    LET r == ReadRow(lines, i, ParseReset)
    IN  IF r.stop THEN <<>> ELSE <<r.row>> \o ReadRows(lines, r.next)

CsvReader(text) ==
    LET lines == ReadLines(text)
    IN  IF Len(lines) = 0 THEN <<>> ELSE ReadRows(lines, 1)

(***************************************************************************)
(* RulesManager.load_rules                                                 *)
(***************************************************************************)
MOVE == <<"m", "o", "v", "e">>
COPY == <<"c", "o", "p", "y">>

SkipRow(row) ==
    \/ row = <<>>
    \/ StartsWith(Strip(row[1]), <<HASH>>)
    \/ Strip(row[1]) = <<>>

\* a loader that takes the mode only from a row of more than four fields
RowRulesFiveFields(row, i) ==
    IF SkipRow(row) THEN <<>>
    ELSE IF Len(row) > 4
    THEN <<[line |-> i, source |-> Strip(row[1]), target |-> Strip(row[2]),
            subpath |-> Strip(row[3]), mode |-> Strip(row[4])]>>
    ELSE IF Len(row) >= 3
    THEN <<[line |-> i, source |-> Strip(row[1]), target |-> Strip(row[2]),
            subpath |-> Strip(row[3]), mode |-> MOVE]>>
    ELSE <<>>

RowRules(row, i) ==
    IF SkipRow(row) THEN <<>>
    ELSE IF Len(row) >= 4
    THEN <<[line |-> i, source |-> Strip(row[1]), target |-> Strip(row[2]),
            subpath |-> Strip(row[3]), mode |-> Strip(row[4])]>>
    ELSE IF Len(row) >= 3
    THEN <<[line |-> i, source |-> Strip(row[1]), target |-> Strip(row[2]),
            subpath |-> Strip(row[3]), mode |-> MOVE]>>
    ELSE <<>>

RECURSIVE RulesOfRows(_, _)
RulesOfRows(rows, i) ==
    IF i > Len(rows) THEN <<>> ELSE RowRules(rows[i], i) \o RulesOfRows(rows, i + 1)

LoadRules(file) ==
    IF ~file.exists THEN <<>> ELSE RulesOfRows(CsvReader(file.content), 1)

(***************************************************************************)
(* RulesManager._categorize_rule                                           *)
(***************************************************************************)
KW_NATIVE == <<"n", "a", "t", "i", "v", "e", " ", "i", "n", "s", "t", "r", "u", "m", "e", "n", "t", "s">>
KW_UVI == <<"u", "v", "i">>
KW_ARTURIA == <<"a", "r", "t", "u", "r", "i", "a">>
KW_LOGIC == <<"l", "o", "g", "i", "c">>
KW_SAMPLES == <<"s", "a", "m", "p", "l", "e", "s">>
KW_PROJECTS == <<"p", "r", "o", "j", "e", "c", "t", "s">>
KW_MUSIC == <<"m", "u", "s", "i", "c">>
KW_SYS == <<"/", "l", "i", "b", "r", "a", "r", "y", "/", "a", "p", "p", "l", "i", "c", "a", "t", "i", "o", "n", " ", "s", "u", "p", "p", "o", "r", "t">>
KW_USER == <<"l", "i", "b", "r", "a", "r", "y", "/", "a", "p", "p", "l", "i", "c", "a", "t", "i", "o", "n", " ", "s", "u", "p", "p", "o", "r", "t">>
KW_DOCUMENTS == <<"d", "o", "c", "u", "m", "e", "n", "t", "s">>

CAT_NATIVE == <<"N", "a", "t", "i", "v", "e", " ", "I", "n", "s", "t", "r", "u", "m", "e", "n", "t", "s">>
CAT_UVI == <<"U", "V", "I", " ", "P", "r", "o", "d", "u", "c", "t", "s">>
CAT_ARTURIA == <<"A", "r", "t", "u", "r", "i", "a">>
CAT_LOGIC == <<"L", "o", "g", "i", "c", " ", "P", "r", "o">>
CAT_SAMPLES == <<"S", "a", "m", "p", "l", "e", " ", "L", "i", "b", "r", "a", "r", "i", "e", "s">>
CAT_PROJECTS == <<"P", "r", "o", "j", "e", "c", "t", "s">>
CAT_SYSTEM == <<"S", "y", "s", "t", "e", "m", " ", "C", "o", "n", "t", "e", "n", "t">>
CAT_USER == <<"U", "s", "e", "r", " ", "S", "e", "t", "t", "i", "n", "g", "s">>
CAT_OTHER == <<"O", "t", "h", "e", "r">>

\* rule['source'] raises KeyError for a rule without that key
HasSource(rule) == "source" \in DOMAIN rule

\* a categorization that compares the source as it is written
CategorizeRuleCaseSensitive(rule) ==
    LET source == rule.source
    IN  IF Contains(source, KW_NATIVE) THEN CAT_NATIVE
        ELSE IF Contains(source, KW_UVI) THEN CAT_UVI
        ELSE IF Contains(source, KW_ARTURIA) THEN CAT_ARTURIA
        ELSE IF Contains(source, KW_LOGIC) THEN CAT_LOGIC
        ELSE IF Contains(source, KW_SAMPLES) THEN CAT_SAMPLES
        ELSE IF Contains(source, KW_PROJECTS) \/ Contains(source, KW_MUSIC) THEN CAT_PROJECTS
        ELSE IF Contains(source, KW_SYS) THEN CAT_SYSTEM
        ELSE IF Contains(source, KW_USER) \/ Contains(source, KW_DOCUMENTS) THEN CAT_USER
        ELSE CAT_OTHER

CategorizeRule(rule) ==
    LET source == Lower(rule.source)
    IN  IF Contains(source, KW_NATIVE) THEN CAT_NATIVE
        ELSE IF Contains(source, KW_UVI) THEN CAT_UVI
        ELSE IF Contains(source, KW_ARTURIA) THEN CAT_ARTURIA
        ELSE IF Contains(source, KW_LOGIC) THEN CAT_LOGIC
        ELSE IF Contains(source, KW_SAMPLES) THEN CAT_SAMPLES
        ELSE IF Contains(source, KW_PROJECTS) \/ Contains(source, KW_MUSIC) THEN CAT_PROJECTS
        ELSE IF Contains(source, KW_SYS) THEN CAT_SYSTEM
        ELSE IF Contains(source, KW_USER) \/ Contains(source, KW_DOCUMENTS) THEN CAT_USER
        ELSE CAT_OTHER

(***************************************************************************)
(* RulesManager.save_rules: what it writes                                 *)
(***************************************************************************)
HEADER_1 == <<"#", " ", "U", "n", "i", "f", "i", "e", "d", " ", "M", "u", "s", "i", "c", " ", "S", "t", "o", "r", "a", "g", "e", " ", "R", "u", "l", "e", "s", "\n">>
HEADER_2 == <<"#", " ", "S", "O", "U", "R", "C", "E", "_", "P", "A", "T", "H", "|", "T", "A", "R", "G", "E", "T", "|", "D", "E", "S", "T", "_", "S", "U", "B", "P", "A", "T", "H", "|", "M", "O", "D", "E", "\n">>
HEADER_3 == <<"#", " ", "T", "A", "R", "G", "E", "T", ":", " ", "S", "S", "D", ",", " ", "N", "A", "S", ",", " ", "o", "r", " ", "L", "o", "c", "a", "l", "\n">>
HEADER_4 == <<"#", " ", "M", "O", "D", "E", ":", " ", "m", "o", "v", "e", " ", "(", "m", "i", "g", "r", "a", "t", "e", "+", "s", "y", "m", "l", "i", "n", "k", ")", ",", " ", "c", "o", "p", "y", " ", "(", "b", "a", "c", "k", "u", "p", " ", "o", "n", "l", "y", ")", "\n", "\n">>

\* the four f.write calls of the header
HeaderWrites == <<HEADER_1, HEADER_2, HEADER_3, HEADER_4>>

\* keys that move to the end each time their category occurs again
RECURSIVE CategoryKeysLastSeen(_, _)
CategoryKeysLastSeen(rules, seen) ==
    IF rules = <<>> THEN seen
    ELSE LET category == CategorizeRule(Head(rules))
         IN  CategoryKeysLastSeen(Tail(rules),
                                  Append(SelectSeq(seen, LAMBDA c : c # category), category))

\* the keys of the dict `categories`, in insertion order
RECURSIVE CategoryKeys(_, _)
CategoryKeys(rules, seen) ==
    IF rules = <<>> THEN seen
    ELSE LET category == CategorizeRule(Head(rules))
         IN  CategoryKeys(Tail(rules),
                          IF \E i \in 1..Len(seen) : seen[i] = category
                          THEN seen ELSE Append(seen, category))

CategoryRules(rules, category) == SelectSeq(rules, LAMBDA r : CategorizeRule(r) = category)

RuleLine(rule) ==
    rule.source \o <<PIPE>> \o rule.target \o <<PIPE>> \o rule.subpath \o <<PIPE>> \o rule.mode \o <<NL>>

RECURSIVE RuleLines(_)
RuleLines(rules) == IF rules = <<>> THEN <<>> ELSE <<RuleLine(Head(rules))>> \o RuleLines(Tail(rules))

\* the f.write calls of one category block
CategoryWrites(rules, category) ==
    <<<<HASH, SPACE>> \o category \o <<NL>>>> \o RuleLines(CategoryRules(rules, category)) \o <<<<NL>>>>

RECURSIVE SectionWrites(_, _)
SectionWrites(rules, keys) ==
    IF keys = <<>> THEN <<>>
    ELSE CategoryWrites(rules, Head(keys)) \o SectionWrites(rules, Tail(keys))

\* every f.write call of a save that completes, in order
RuleFileWrites(rules) == HeaderWrites \o SectionWrites(rules, CategoryKeys(rules, <<>>))

(***************************************************************************)
(* Bounds and sample inputs of the rule store                              *)
(***************************************************************************)
\* POST requests to /api/rules in one run
MaxSaves == 2
\* the last second of the clock
MaxNow == 1
\* I/O failures in one run
MaxFaults == 1

SSD == <<"S", "S", "D">>
NAS == <<"N", "A", "S">>

RULE_UVI == [source |-> <<"u", "v", "i">>, target |-> SSD, subpath |-> <<"p">>, mode |-> MOVE]
RULE_LOGIC == [source |-> <<"L", "o", "g", "i", "c">>, target |-> NAS, subpath |-> <<"q">>, mode |-> COPY]
RULE_HASH == [source |-> <<HASH, "a">>, target |-> SSD, subpath |-> <<"p">>, mode |-> MOVE]
RULE_UVI_COPY == [source |-> <<"U", "V", "I">>, target |-> NAS, subpath |-> <<"q">>, mode |-> COPY]
\* a rule posted without its source key
RULE_NOSOURCE == [target |-> SSD, subpath |-> <<"p">>, mode |-> MOVE]

\* the bodies posted to /api/rules
RuleLists ==
    { <<>>, <<RULE_UVI>>, <<RULE_LOGIC, RULE_UVI>>, <<RULE_UVI, RULE_LOGIC, RULE_UVI_COPY>>,
      <<RULE_HASH>>, <<RULE_UVI, RULE_NOSOURCE>> }

\* the rule file found at start-up: none, an empty one, a legacy one
LEGACY_FILE == <<"A", "|", "B", "|", "C", NL>>

InitialRuleFiles ==
    { [exists |-> FALSE, content |-> <<>>],
      [exists |-> TRUE, content |-> <<>>],
      [exists |-> TRUE, content |-> LEGACY_FILE] }

(***************************************************************************)
(* api_rules POST -> RulesManager.save_rules, step by step                 *)
(***************************************************************************)
NoResponse == [method |-> "none", status |-> "none", code |-> 0, body |-> <<>>, read |-> "none"]

SaveIdle ==
    [pc |-> "idle", n |-> 0, faults |-> 0, rules |-> <<>>, original_lines |-> <<>>,
     exc |-> "none", prior_file |-> [exists |-> FALSE, content |-> <<>>],
     prior_backups |-> <<>>]

\* an except block that logs the exception and returns
Swallow(what) == [save EXCEPT !.pc = "return", !.exc = what, !.faults = @ + 1]

\* an exception leaves the try block: logged and raised again
Raise(what) == [save EXCEPT !.pc = "raise", !.exc = what, !.faults = @ + 1]

CanFault == save.faults < MaxFaults

\* POST /api/rules: new_rules = request.json; rules_manager.save_rules(new_rules)
ApiRulesPost(new_rules) ==
    /\ save.pc = "idle"
    /\ save.n < MaxSaves
    /\ save' = [save EXCEPT !.pc = "read", !.n = @ + 1, !.rules = new_rules,
                            !.original_lines = <<>>, !.exc = "none",
                            !.prior_file = rules_file, !.prior_backups = backups]
    /\ UNCHANGED <<rules_file, backups, now, response>>
    /\ UNCHANGED <<metricVars, serviceVars>>

\* original_lines = f.readlines() if the file exists
SaveReadOriginal ==
    /\ save.pc = "read"
    /\ \/ save' = [save EXCEPT !.pc = "backup",
                     !.original_lines = IF rules_file.exists
                                        THEN ReadLines(rules_file.content) ELSE <<>>]
       \/ /\ rules_file.exists
          /\ CanFault
          /\ save' = Raise("read")
    /\ UNCHANGED <<rules_file, backups, now, response>>
    /\ UNCHANGED <<metricVars, serviceVars>>

\* a save that goes on to the rule file without having written the backup
SaveSkipBackup ==
    /\ save.pc = "backup"
    /\ save' = [save EXCEPT !.pc = "open"]
    /\ UNCHANGED <<rules_file, backups, now, response>>
    /\ UNCHANGED <<metricVars, serviceVars>>

\* the backup: named by the second, written only if original_lines is not empty
SaveWriteBackup ==
    /\ save.pc = "backup"
    /\ \/ /\ save.original_lines = <<>>
          /\ save' = [save EXCEPT !.pc = "open"]
          /\ UNCHANGED backups
       \/ /\ save.original_lines # <<>>
          /\ backups' = (now :> Concat(save.original_lines)) @@ backups
          /\ save' = [save EXCEPT !.pc = "open"]
       \/ \* open(backup_file, 'w') fails
          /\ save.original_lines # <<>>
          /\ CanFault
          /\ UNCHANGED backups
          /\ save' = Raise("backup")
       \/ \* writelines fails after k lines
          /\ save.original_lines # <<>>
          /\ CanFault
          /\ \E k \in 0..(Len(save.original_lines) - 1) :
                backups' = (now :> Concat(SubSeq(save.original_lines, 1, k))) @@ backups
          /\ save' = Raise("backup")
    /\ UNCHANGED <<rules_file, now, response>>
    /\ UNCHANGED <<metricVars, serviceVars>>

\* open(self.rules_file, 'w'): the file is created or truncated
SaveOpenRulesFile ==
    /\ save.pc = "open"
    /\ \/ /\ rules_file' = [exists |-> TRUE, content |-> <<>>]
          /\ save' = [save EXCEPT !.pc = "write"]
       \/ /\ CanFault
          /\ UNCHANGED rules_file
          /\ save' = Raise("open")
    /\ UNCHANGED <<backups, now, response>>
    /\ UNCHANGED <<metricVars, serviceVars>>

\* the header, the grouping by category, the category blocks
SaveWriteRules ==
    /\ save.pc = "write"
    /\ \/ \* every rule is categorized and written
          /\ \A i \in 1..Len(save.rules) : HasSource(save.rules[i])
          /\ rules_file' = [rules_file EXCEPT !.content = Concat(RuleFileWrites(save.rules))]
          /\ save' = [save EXCEPT !.pc = "return"]
       \/ \* _categorize_rule raises KeyError: the header is written, no block is
          /\ \E i \in 1..Len(save.rules) : ~HasSource(save.rules[i])
          /\ rules_file' = [rules_file EXCEPT !.content = Concat(HeaderWrites)]
          /\ save' = [Raise("categorize") EXCEPT !.faults = save.faults]
       \/ \* a write fails: the writes before it reached the file
          /\ CanFault
          /\ LET writes == IF \A i \in 1..Len(save.rules) : HasSource(save.rules[i])
                           THEN RuleFileWrites(save.rules) ELSE HeaderWrites
             IN  \E k \in 0..(Len(writes) - 1) :
                    rules_file' = [rules_file EXCEPT !.content = Concat(SubSeq(writes, 1, k))]
          /\ save' = Raise("write")
    /\ UNCHANGED <<backups, now, response>>
    /\ UNCHANGED <<metricVars, serviceVars>>

\* api_rules answers: success after a normal return, 400 after an exception
ApiRulesRespond ==
    /\ save.pc \in {"return", "raise"}
    /\ response' = IF save.pc = "return"
                   THEN [method |-> "POST", status |-> "success", code |-> 200,
                         body |-> <<>>, read |-> "none"]
                   ELSE [method |-> "POST", status |-> "error", code |-> 400,
                         body |-> <<>>, read |-> "none"]
    /\ save' = [save EXCEPT !.pc = "idle"]
    /\ UNCHANGED <<rules_file, backups, now>>
    /\ UNCHANGED <<metricVars, serviceVars>>

\* GET /api/rules: jsonify(rules_manager.load_rules()); when the file cannot be
\* opened the exception is logged and the empty list returned
ApiRulesGet ==
    /\ save.pc = "idle"
    /\ \/ response' = [method |-> "GET", status |-> "success", code |-> 200,
                       body |-> LoadRules(rules_file), read |-> "ok"]
       \/ /\ rules_file.exists
          /\ response' = [method |-> "GET", status |-> "success", code |-> 200,
                          body |-> <<>>, read |-> "fails"]
    /\ UNCHANGED <<rules_file, backups, now, save>>
    /\ UNCHANGED <<metricVars, serviceVars>>

\* a second passes
Tick ==
    /\ now < MaxNow
    /\ now' = now + 1
    /\ UNCHANGED <<rules_file, backups, save, response>>
    /\ UNCHANGED <<metricVars, serviceVars>>

(***************************************************************************)
(* OperationMetrics: the journal in metrics.json                           *)
(***************************************************************************)
\* metrics['operations'][:100]
MAX_OPERATIONS == 100

\* a JSON null, and a JSON number n, as the value of a nullable key
None == <<>>
Some(n) == <<n>>

EmptyMetrics ==
    [operations |-> <<>>, summary |-> [total |-> 0, success |-> 0, failed |-> 0, timeouts |-> 0]]

NoCall == [n |-> 0, op |-> "none", faults |-> 0]

\* _load_metrics: the journal read from the file, or the zeroed default when the
\* file cannot be read or parsed
LoadMetrics(rd) ==
    IF rd = "ok" /\ metrics_file.readable THEN metrics_file.data ELSE EmptyMetrics

\* _save_metrics: the file after json.dump, after an open that failed (unchanged)
\* or after a dump that failed (no longer valid JSON); no exception leaves it
SaveMetrics(metrics, wr) ==
    IF wr = "ok" THEN [readable |-> TRUE, data |-> metrics]
    ELSE IF wr = "open_fails" THEN metrics_file
    ELSE [readable |-> FALSE, data |-> EmptyMetrics]

\* round(duration, 2): milliseconds in, hundredths of a second out (the sample
\* durations lie on no rounding tie)
Round2(ms) == (ms + 5) \div 10

\* an insert that puts the new entry behind the stored ones
InsertLast(operations, operation) == operations \o <<operation>>

\* operations.insert(0, operation)
InsertFirst(operations, operation) == <<operation>> \o operations

\* a cap that keeps one entry too many
KeepNewestOffByOne(operations) ==
    SubSeq(operations, 1, Min(Len(operations), MAX_OPERATIONS + 1))

\* operations[:100]
KeepNewest(operations) == SubSeq(operations, 1, Min(Len(operations), MAX_OPERATIONS))

OperationEntry(command, returncode, duration, dry_run) ==
    [timestamp |-> clock + 1, command |-> command, returncode |-> returncode,
     duration |-> Some(Round2(duration)), success |-> (returncode = 0), dry_run |-> dry_run]

TimeoutEntry(command) ==
    [timestamp |-> clock + 1, command |-> command, returncode |-> -1,
     duration |-> None, success |-> FALSE, timeout |-> TRUE]

\* a summary that counts every exit code that is not negative as a success
OperationSummaryNonNegative(summary, returncode) ==
    IF returncode >= 0
    THEN [summary EXCEPT !.total = @ + 1, !.success = @ + 1]
    ELSE [summary EXCEPT !.total = @ + 1, !.failed = @ + 1]

OperationSummary(summary, returncode) ==
    IF returncode = 0
    THEN [summary EXCEPT !.total = @ + 1, !.success = @ + 1]
    ELSE [summary EXCEPT !.total = @ + 1, !.failed = @ + 1]

\* a summary that counts a timeout but not as a failure
TimeoutSummaryNotFailed(summary) ==
    [summary EXCEPT !.total = @ + 1, !.timeouts = @ + 1]

TimeoutSummary(summary) ==
    [summary EXCEPT !.total = @ + 1, !.timeouts = @ + 1, !.failed = @ + 1]

Faults(rd, wr) == (IF rd = "ok" THEN 0 ELSE 1) + (IF wr = "ok" THEN 0 ELSE 1)

\* operation_metrics.record_operation(command, returncode, duration, dry_run),
\* its read ending rd and its write ending wr
RecordOperation(command, returncode, duration, dry_run, rd, wr) ==
    LET metrics == LoadMetrics(rd)
        operation == OperationEntry(command, returncode, duration, dry_run)
        updated == [operations |-> KeepNewest(InsertFirst(metrics.operations, operation)),
                    summary |-> OperationSummary(metrics.summary, returncode)]
    IN  /\ metrics_file' = SaveMetrics(updated, wr)
        /\ clock' = clock + 1
        /\ call' = [n |-> call.n + 1, op |-> "record_operation", command |-> command,
                    returncode |-> returncode, read |-> rd, write |-> wr,
                    faults |-> call.faults + Faults(rd, wr)]
        /\ history' = IF wr = "ok" THEN Append(history, operation) ELSE history
        /\ UNCHANGED script
        /\ UNCHANGED <<ruleVars, serviceVars>>

\* operation_metrics.record_timeout(command)
RecordTimeout(command, rd, wr) ==
    LET metrics == LoadMetrics(rd)
        operation == TimeoutEntry(command)
        updated == [operations |-> KeepNewest(InsertFirst(metrics.operations, operation)),
                    summary |-> TimeoutSummary(metrics.summary)]
    IN  /\ metrics_file' = SaveMetrics(updated, wr)
        /\ clock' = clock + 1
        /\ call' = [n |-> call.n + 1, op |-> "record_timeout", command |-> command,
                    returncode |-> -1, read |-> rd, write |-> wr,
                    faults |-> call.faults + Faults(rd, wr)]
        /\ history' = IF wr = "ok" THEN Append(history, operation) ELSE history
        /\ UNCHANGED script
        /\ UNCHANGED <<ruleVars, serviceVars>>

\* after OperationMetrics(): _ensure_metrics_file has written the empty journal
MetricsInit ==
    /\ metrics_file = [readable |-> TRUE, data |-> EmptyMetrics]
    /\ clock = 0
    /\ call = NoCall
    /\ history = <<>>
    /\ script = <<>>

(***************************************************************************)
(* The server and its request threads                                      *)
(***************************************************************************)
\* requests the server has threads for
MaxThreads == 2

Threads == 1..MaxThreads

NoQuery == [op |-> "none"]

\* a thread that has not received its request: where it is in api_execute, how
\* the script ended, its exit code, how the journal read and write ended, the
\* journal it is about to write, the record_* calls it made, the HTTP status
IdleRequest ==
    [pc |-> "idle", kind |-> "none", returncode |-> 0, read |-> "none", write |-> "none",
     updated |-> <<>>, calls |-> <<>>, status |-> 0]

\* python app.py: app.run() of app.py with the threaded server, no request yet
ServiceIdle ==
    /\ query = NoQuery
    /\ log_file = [exists |-> FALSE, lines |-> <<>>, mtime |-> 0]
    /\ log_backups = <<>>
    /\ requests = [t \in Threads |-> IdleRequest]
    /\ server = [module |-> "app", threaded |-> TRUE]

(***************************************************************************)
(* SpecRules: the rule store under POST and GET requests                   *)
(***************************************************************************)
RulesIdle ==
    /\ backups = <<>>
    /\ now = 0
    /\ save = SaveIdle
    /\ response = NoResponse

InitRules ==
    /\ rules_file \in InitialRuleFiles
    /\ RulesIdle
    /\ MetricsInit
    /\ ServiceIdle

NextRules ==
    \/ \E new_rules \in RuleLists : ApiRulesPost(new_rules)
    \/ SaveReadOriginal
    \/ SaveWriteBackup
    \/ SaveOpenRulesFile
    \/ SaveWriteRules
    \/ ApiRulesRespond
    \/ ApiRulesGet
    \/ Tick

SpecRules == InitRules /\ [][NextRules]_vars

(***************************************************************************)
(* SpecJournal: record_* calls, one after another, with I/O failures       *)
(***************************************************************************)
\* record_* calls in one run
MaxCalls == 3

\* ' '.join(cmd) with the dry_run flag it was built from
Commands ==
    { [command |-> "music-storage-manager.zsh -n", dry_run |-> TRUE],
      [command |-> "music-storage-manager.zsh", dry_run |-> FALSE] }

ReturnCodes == {0, 1}

\* durations in milliseconds
Durations == {4, 1234}

ReadOutcomes == {"ok", "fails"}
WriteOutcomes == {"ok", "open_fails", "dump_fails"}

\* the rule store as it is left alone
RulesUnused ==
    /\ rules_file = [exists |-> FALSE, content |-> <<>>]
    /\ RulesIdle

InitJournal ==
    /\ RulesUnused
    /\ MetricsInit
    /\ ServiceIdle

JournalOperation ==
    /\ clock < MaxCalls
    /\ \E c \in Commands, returncode \in ReturnCodes, duration \in Durations,
          rd \in ReadOutcomes, wr \in WriteOutcomes :
          /\ call.faults + Faults(rd, wr) <= MaxFaults
          /\ RecordOperation(c.command, returncode, duration, c.dry_run, rd, wr)

JournalTimeout ==
    /\ clock < MaxCalls
    /\ \E c \in Commands, rd \in ReadOutcomes, wr \in WriteOutcomes :
          /\ call.faults + Faults(rd, wr) <= MaxFaults
          /\ RecordTimeout(c.command, rd, wr)

NextJournal == JournalOperation \/ JournalTimeout

SpecJournal == InitJournal /\ [][NextJournal]_vars

(***************************************************************************)
(* SpecCap: a driver that repeats a script of calls past the cap of the    *)
(* detail list, with no I/O failure                                        *)
(***************************************************************************)
\* record_* calls in one run of the driver
CapCalls == 102
\* calls in the script the driver repeats
ScriptLen == 2

ScriptCalls ==
    { [op |-> "record_operation", command |-> "music-storage-manager.zsh -n",
       returncode |-> 0, duration |-> 1234, dry_run |-> TRUE],
      [op |-> "record_operation", command |-> "music-storage-manager.zsh",
       returncode |-> 1, duration |-> 4, dry_run |-> FALSE],
      [op |-> "record_timeout", command |-> "music-storage-manager.zsh"] }

InitCap ==
    /\ RulesUnused
    /\ metrics_file = [readable |-> TRUE, data |-> EmptyMetrics]
    /\ clock = 0
    /\ call = NoCall
    /\ history = <<>>
    /\ script \in [1..ScriptLen -> ScriptCalls]
    /\ ServiceIdle

\* the call the driver makes next
ScriptNext == script[(clock % Len(script)) + 1]

ScriptedOperation ==
    /\ clock < CapCalls
    /\ ScriptNext.op = "record_operation"
    /\ RecordOperation(ScriptNext.command, ScriptNext.returncode, ScriptNext.duration,
                       ScriptNext.dry_run, "ok", "ok")

ScriptedTimeout ==
    /\ clock < CapCalls
    /\ ScriptNext.op = "record_timeout"
    /\ RecordTimeout(ScriptNext.command, "ok", "ok")

NextCap == ScriptedOperation \/ ScriptedTimeout

SpecCap == InitCap /\ [][NextCap]_vars

(***************************************************************************)
(* Properties of the metrics journal                                       *)
(***************************************************************************)
Operations == metrics_file.data.operations
Summary == metrics_file.data.summary

\* the step is a record_* call of the given kind whose read and write both
\* succeeded on a journal file that could be parsed
Recorded(op) ==
    /\ call'.n = call.n + 1
    /\ call'.op = op
    /\ call'.read = "ok"
    /\ call'.write = "ok"
    /\ metrics_file.readable

(* C1: from a fresh journal, after k record calls without I/O failure the   *)
(* detail list holds exactly the min(k, 100) most recent entries, newest    *)
(* first, and summary.total = k (101 calls: 100 entries, total 101).        *)
MetricsCap ==
    LET k == Len(history)
    IN  /\ k = clock
        /\ Len(Operations) = Min(k, 100)
        /\ \A i \in 1..Len(Operations) : Operations[i] = history[k - i + 1]
        /\ Summary.total = k

MetricsCapWitness ==
    /\ Len(history) = 101
    /\ Len(Operations) = 100
    /\ Summary.total = 101
    /\ Operations[1] = history[101]
    /\ Operations[100] = history[2]

(* C2: a record_timeout call puts at the head of the detail list an entry   *)
(* with returncode -1, success false, timeout true and a null duration,     *)
(* and adds exactly 1 to total, timeouts and failed, leaving success.       *)
TimeoutClassification ==
    [][Recorded("record_timeout") =>
        LET before == metrics_file.data.summary
            after == metrics_file'.data.summary
            head == metrics_file'.data.operations[1]
        IN  /\ head.command = call'.command
            /\ head.returncode = -1
            /\ head.success = FALSE
            /\ "timeout" \in DOMAIN head /\ head.timeout = TRUE
            /\ head.duration = None
            /\ after.total = before.total + 1
            /\ after.timeouts = before.timeouts + 1
            /\ after.failed = before.failed + 1
            /\ after.success = before.success]_vars

TimeoutClassificationWitness ==
    /\ call.op = "record_timeout" /\ call.read = "ok" /\ call.write = "ok"
    /\ Len(Operations) = 2
    /\ "timeout" \in DOMAIN Operations[1]
    /\ Operations[2].success
    /\ Summary = [total |-> 2, success |-> 1, failed |-> 1, timeouts |-> 1]

(* C3: a record_operation call adds exactly 1 to total and to exactly one   *)
(* of success (returncode = 0) and failed (returncode # 0), leaves timeouts,*)
(* and its entry, at the head, has success = (returncode = 0).              *)
OperationCounting ==
    [][Recorded("record_operation") =>
        LET before == metrics_file.data.summary
            after == metrics_file'.data.summary
            head == metrics_file'.data.operations[1]
            ok == (call'.returncode = 0)
        IN  /\ head.command = call'.command
            /\ head.returncode = call'.returncode
            /\ head.success = ok
            /\ after.total = before.total + 1
            /\ after.success = before.success + (IF ok THEN 1 ELSE 0)
            /\ after.failed = before.failed + (IF ok THEN 0 ELSE 1)
            /\ after.timeouts = before.timeouts]_vars

OperationCountingWitness ==
    /\ call.op = "record_operation" /\ call.read = "ok" /\ call.write = "ok"
    /\ call.returncode # 0
    /\ Len(Operations) = 3
    /\ ~Operations[1].success
    /\ Operations[2].success
    /\ Summary.failed = 2 /\ Summary.success = 1 /\ Summary.timeouts = 1

(***************************************************************************)
(* SpecParse: load_rules applied to rule files of up to MaxLines lines     *)
(***************************************************************************)
\* lines of a rule file
MaxLines == 2

\* lines of a rule file, without their newline
LineSamples ==
    { <<"A", PIPE, "B", PIPE, "C">>,
      <<"A", PIPE, "B", PIPE, "C", PIPE, "c", "o", "p", "y">>,
      <<"A", PIPE, "B", PIPE, "C", PIPE, "c", "o", "p", "y", PIPE, "x">>,
      <<SPACE, "A", SPACE, PIPE, "B", PIPE, SPACE, "C", PIPE, SPACE, "c", "o", "p", "y", SPACE>>,
      <<"A", PIPE, "B">>,
      <<"A", PIPE, PIPE, "C">>,
      <<PIPE, "B", PIPE, "C">>,
      <<HASH, "c", PIPE, "B", PIPE, "C">>,
      <<SPACE>>,
      <<>>,
      <<QUOTE, "x">> }

RECURSIVE FilesOf(_)
FilesOf(n) ==
    IF n = 0 THEN {<<>>}
    ELSE FilesOf(n - 1) \cup
         {line \o <<NL>> \o rest : line \in LineSamples, rest \in FilesOf(n - 1)}

InitParse ==
    /\ rules_file \in {[exists |-> FALSE, content |-> <<>>]}
                      \cup {[exists |-> TRUE, content |-> c] : c \in FilesOf(MaxLines)}
    /\ RulesIdle
    /\ MetricsInit
    /\ ServiceIdle

NextParse == ApiRulesGet

SpecParse == InitParse /\ [][NextParse]_vars

(***************************************************************************)
(* Properties of the rule store                                            *)
(***************************************************************************)
\* the last save_rules returned normally
SaveReturned == save.n > 0 /\ save.exc = "none" /\ save.pc \in {"return", "idle"}

(* C4: after every save, if a rule file existed before it, exactly one more *)
(* backup file exists than before and the new backup holds the content the  *)
(* rule file had just before the save (also for an empty file, also for two *)
(* saves in one second); if no rule file existed, no backup is created.     *)
OneBackupPerSave ==
    SaveReturned =>
        IF save.prior_file.exists
        THEN /\ Cardinality(DOMAIN backups) = Cardinality(DOMAIN save.prior_backups) + 1
             /\ \E t \in DOMAIN backups \ DOMAIN save.prior_backups :
                    backups[t] = save.prior_file.content
        ELSE backups = save.prior_backups

SaveFailsLoudly ==
    /\ save.exc # "none" => save.pc \in {"raise", "idle"}
    /\ (save.exc # "none" /\ save.pc = "idle" /\ response.method = "POST")
          => (response.status = "error" /\ response.code = 400)
    /\ (save.pc = "idle" /\ response.method = "POST" /\ response.status = "success")
          => /\ save.exc = "none"
             /\ rules_file = [exists |-> TRUE, content |-> Concat(RuleFileWrites(save.rules))]

SaveFailsLoudlyWitness ==
    /\ save.pc = "idle"
    /\ save.exc = "write"
    /\ response.method = "POST" /\ response.status = "error"
    /\ rules_file.content = Concat(HeaderWrites)

\* the (source, target, subpath, mode) of a rule
RuleTuple(rule) == <<rule.source, rule.target, rule.subpath, rule.mode>>

TupleCount(rules, t) == Cardinality({i \in 1..Len(rules) : RuleTuple(rules[i]) = t})

\* the same tuples, each as often, in any order
SameTuples(a, b) ==
    /\ Len(a) = Len(b)
    /\ \A i \in 1..Len(a) : TupleCount(a, RuleTuple(a[i])) = TupleCount(b, RuleTuple(a[i]))

(* C7: load() after a save(R) that returned gives rules whose (source,      *)
(* target, subpath, mode) tuples are exactly those of R.                    *)
RoundTrip ==
    (SaveReturned /\ save.pc = "idle" /\ response.method = "GET" /\ response.read = "ok")
        => SameTuples(response.body, save.rules)

\* the rules loaded from the row at position i of the rows
RulesAtLine(body, i) == SelectSeq(body, LAMBDA rule : rule.line = i)

\* the elements of a finite set of numbers, ascending
RECURSIVE Ascending(_)
Ascending(S) ==
    IF S = {} THEN <<>>
    ELSE LET least == CHOOSE x \in S : \A y \in S : x <= y
         IN  <<least>> \o Ascending(S \ {least})

\* the positions of the rules that are the first of their category
FirstOfCategory(rules) ==
    {i \in 1..Len(rules) :
        \A j \in 1..(i - 1) : CategorizeRule(rules[j]) # CategorizeRule(rules[i])}

\* the lines of a written rule file that head a section: comment lines after
\* the four header lines and the blank line that ends them
SectionHeads(lines) == {k \in 6..Len(lines) : StartsWith(lines[k], <<HASH, SPACE>>)}

\* the lines of the section headed at line k, up to the blank line that ends it
SectionBody(lines, k) ==
    LET end == CHOOSE e \in (k + 1)..Len(lines) :
                   /\ lines[e] = <<NL>>
                   /\ \A d \in (k + 1)..(e - 1) : lines[d] # <<NL>>
    IN  SubSeq(lines, k + 1, end - 1)

(* C13: the file written by save has one section per category occurring in *)
(* the input and no other; the sections are in the order in which their     *)
(* category first occurs in the input, each category once, and within a     *)
(* section the rules keep their input order.                                *)
SectionsInFirstSeenOrder ==
    SaveReturned =>
        LET lines == ReadLines(rules_file.content)
            heads == Ascending(SectionHeads(lines))
            firsts == Ascending(FirstOfCategory(save.rules))
        IN  /\ Len(heads) = Len(firsts)
            /\ \A n \in 1..Len(heads) :
                  LET category == CategorizeRule(save.rules[firsts[n]])
                      members == SelectSeq(save.rules,
                                           LAMBDA r : CategorizeRule(r) = category)
                      body == SectionBody(lines, heads[n])
                  IN  /\ lines[heads[n]] = <<HASH, SPACE>> \o category \o <<NL>>
                      /\ Len(body) = Len(members)
                      /\ \A m \in 1..Len(body) :
                            body[m] = members[m].source \o <<PIPE>> \o members[m].target
                                      \o <<PIPE>> \o members[m].subpath \o <<PIPE>>
                                      \o members[m].mode \o <<NL>>

SectionsInFirstSeenOrderWitness ==
    /\ SaveReturned
    /\ save.rules = <<RULE_UVI, RULE_LOGIC, RULE_UVI_COPY>>
    /\ LET lines == ReadLines(rules_file.content)
       IN  /\ Len(lines) = 12
           /\ lines[6] = <<HASH, SPACE>> \o CAT_UVI \o <<NL>>
           /\ lines[8] = <<"U", "V", "I", PIPE, "N", "A", "S", PIPE, "q", PIPE,
                           "c", "o", "p", "y", NL>>
           /\ lines[10] = <<HASH, SPACE>> \o CAT_LOGIC \o <<NL>>

PipeCount(line) == Cardinality({i \in 1..Len(line) : line[i] = PIPE})

FirstField(line) ==
    IF PipeCount(line) = 0 THEN line
    ELSE SubSeq(line, 1, (CHOOSE i \in 1..Len(line) :
                            line[i] = PIPE /\ \A j \in 1..(i - 1) : line[j] # PIPE) - 1)

\* a line of three or more fields, without quote characters, whose first field
\* is not empty and no comment
WellFormedLine(line) ==
    /\ PipeCount(line) >= 2
    /\ \A i \in 1..Len(line) : line[i] # QUOTE
    /\ Strip(FirstField(line)) # <<>>
    /\ Strip(FirstField(line))[1] # HASH

(* C9: load never raises; a missing file yields the empty sequence; every   *)
(* well-formed data line of an existing file yields a rule, in file order,  *)
(* whose line field is the 1-based position of that line in the file,       *)
(* whatever malformed, comment or blank lines precede it.                   *)
LoadFailsSoft ==
    (response.method = "GET" /\ response.read = "ok") =>
        /\ ~rules_file.exists => response.body = <<>>
        /\ LET lines == ReadLines(rules_file.content)
           IN  /\ \A i \in 1..Len(lines) :
                     WellFormedLine(lines[i]) =>
                        \E k \in 1..Len(response.body) :
                           /\ response.body[k].line = i
                           /\ response.body[k].source = Strip(FirstField(lines[i]))
               /\ \A k \in 1..(Len(response.body) - 1) :
                     response.body[k].line < response.body[k + 1].line

(* C10: every rule returned by load has a non-empty source and a non-empty  *)
(* target, for every content of the rule file.                              *)
LoadedRulesNonEmpty ==
    response.method = "GET" =>
        \A k \in 1..Len(response.body) :
            response.body[k].source # <<>> /\ response.body[k].target # <<>>

(***************************************************************************)
(* SpecCategorize: _categorize_rule applied to sources put together from   *)
(* up to MaxFragments path fragments                                       *)
(***************************************************************************)
\* path fragments in one source
MaxFragments == 2

SRC_SYSTEM == <<"/", "L", "i", "b", "r", "a", "r", "y", "/", "A", "p", "p", "l", "i", "c", "a", "t", "i", "o", "n", " ", "S", "u", "p", "p", "o", "r", "t", "/", "X">>
SRC_HOME == <<"~">>
SRC_NATIVE == <<"N", "a", "t", "i", "v", "e", " ", "I", "n", "s", "t", "r", "u", "m", "e", "n", "t", "s", "/", "K", "o", "n", "t", "a", "k", "t">>
SRC_UVI == <<"U", "V", "I">>

SourceFragments ==
    { SRC_SYSTEM, SRC_HOME, SRC_NATIVE, SRC_UVI,
      <<"L", "i", "b", "r", "a", "r", "y", "/", "A", "p", "p", "l", "i", "c", "a", "t", "i", "o", "n", " ", "S", "u", "p", "p", "o", "r", "t", "/">>,
      <<"D", "o", "c", "u", "m", "e", "n", "t", "s", "/", "f", "o", "o">>,
      <<"A", "r", "t", "u", "r", "i", "a">>,
      <<"l", "o", "g", "i", "c">>,
      <<"S", "A", "M", "P", "L", "E", "S">>,
      <<"P", "r", "o", "j", "e", "c", "t", "s">>,
      <<"M", "u", "s", "i", "c">>,
      <<"/", "V", "o", "l", "u", "m", "e", "s", "/", "x", "/">> }

RECURSIVE SourcesOf(_)
SourcesOf(n) ==
    IF n = 0 THEN {<<>>}
    ELSE SourcesOf(n - 1) \cup {f \o rest : f \in SourceFragments, rest \in SourcesOf(n - 1)}

\* a rule with one of the sources is at hand
InitCategorize ==
    /\ RulesUnused
    /\ MetricsInit
    /\ query \in {[op |-> "rule", source |-> source] : source \in SourcesOf(MaxFragments)}
    /\ log_file = [exists |-> FALSE, lines |-> <<>>, mtime |-> 0]
    /\ log_backups = <<>>
    /\ requests = [t \in Threads |-> IdleRequest]
    /\ server = [module |-> "app", threaded |-> TRUE]

\* self._categorize_rule(rule)
Categorize ==
    /\ query.op = "rule"
    /\ LET rule == [source |-> query.source, target |-> SSD, subpath |-> <<>>, mode |-> MOVE]
       IN  query' = [op |-> "categorize", source |-> query.source,
                     category |-> CategorizeRule(rule)]
    /\ UNCHANGED <<ruleVars, metricVars, log_file, log_backups, requests, server>>

NextCategorize == Categorize

SpecCategorize == InitCategorize /\ [][NextCategorize]_vars

(***************************************************************************)
(* Properties of the categorization                                        *)
(***************************************************************************)
\* the keyword is in the source, letter case aside
Mentions(source, keyword) == Contains(Lower(source), keyword)

(* C11: a source "/Library/Application Support/X" is System Content, a      *)
(* source "~/Library/Application Support/X" (the text as a relative or      *)
(* partial path) is User Settings, and a source with 'documents' and none   *)
(* of the earlier keywords is User Settings.                                *)
LeadingSlashDistinction ==
    query.op = "categorize" =>
        /\ query.source = SRC_SYSTEM => query.category = CAT_SYSTEM
        /\ query.source = SRC_HOME \o SRC_SYSTEM => query.category = CAT_USER
        /\ ( /\ Mentions(query.source, KW_DOCUMENTS)
             /\ \A kw \in {KW_NATIVE, KW_UVI, KW_ARTURIA, KW_LOGIC, KW_SAMPLES,
                             KW_PROJECTS, KW_MUSIC, KW_SYS} : ~Mentions(query.source, kw) )
              => query.category = CAT_USER

\* the ordered keyword list: the keywords of an entry and its category
KeywordList ==
    << [keywords |-> {KW_NATIVE}, category |-> CAT_NATIVE],
       [keywords |-> {KW_UVI}, category |-> CAT_UVI],
       [keywords |-> {KW_ARTURIA}, category |-> CAT_ARTURIA],
       [keywords |-> {KW_LOGIC}, category |-> CAT_LOGIC],
       [keywords |-> {KW_SAMPLES}, category |-> CAT_SAMPLES],
       [keywords |-> {KW_PROJECTS, KW_MUSIC}, category |-> CAT_PROJECTS],
       [keywords |-> {KW_SYS}, category |-> CAT_SYSTEM],
       [keywords |-> {KW_USER, KW_DOCUMENTS}, category |-> CAT_USER] >>

\* the entries of the list with a keyword in the source
MatchingEntries(source) ==
    {i \in 1..Len(KeywordList) : \E kw \in KeywordList[i].keywords : Mentions(source, kw)}

FirstMatch(source) ==
    IF MatchingEntries(source) = {} THEN CAT_OTHER
    ELSE KeywordList[CHOOSE i \in MatchingEntries(source) :
                        \A j \in MatchingEntries(source) : i <= j].category

(* C12: categorize returns exactly one of the nine categories, that of the  *)
(* first entry of the ordered keyword list with a keyword in the source     *)
(* under case-insensitive substring matching (Other when none matches), and *)
(* sources that differ only in letter case get the same category.           *)
FirstMatchWins ==
    query.op = "categorize" =>
        /\ query.category = FirstMatch(query.source)
        /\ query.category \in {CAT_NATIVE, CAT_UVI, CAT_ARTURIA, CAT_LOGIC, CAT_SAMPLES,
                                CAT_PROJECTS, CAT_SYSTEM, CAT_USER, CAT_OTHER}
        /\ CategorizeRule([source |-> Lower(query.source)]) = query.category

FirstMatchWinsWitness ==
    /\ query.op = "categorize"
    /\ query.source = SRC_UVI \o SRC_NATIVE
    /\ Cardinality(MatchingEntries(query.source)) = 2
    /\ query.category = CAT_NATIVE

(***************************************************************************)
(* LogMonitor.get_recent_logs and SpecLogs: the tail of a log file of up   *)
(* to MaxLogLines lines                                                    *)
(***************************************************************************)
\* lines in the log file
MaxLogLines == 3

\* lines of a log file, as readlines returns them
LogLineSamples ==
    { <<"a", NL>>,
      <<SPACE, SPACE, "b", SPACE, NL>>,
      <<NL>> }

RECURSIVE LogsOf(_)
LogsOf(n) ==
    IF n = 0 THEN {<<>>}
    ELSE LogsOf(n - 1) \cup {<<line>> \o rest : line \in LogLineSamples, rest \in LogsOf(n - 1)}

\* the values of the request argument `lines`
LineCounts == (0 - 1)..(MaxLogLines + 1)

\* all_lines[-lines:]
LastLines(all_lines, lines) ==
    LET start == IF lines > 0 THEN Len(all_lines) - Min(lines, Len(all_lines))
                 ELSE Min(0 - lines, Len(all_lines))
    IN  SubSeq(all_lines, start + 1, Len(all_lines))

\* [line.strip() for line in ...]
StripAll(lines) == [i \in 1..Len(lines) |-> Strip(lines[i])]

InitLogs ==
    /\ RulesUnused
    /\ MetricsInit
    /\ query = NoQuery
    /\ log_file \in {[exists |-> FALSE, lines |-> <<>>, mtime |-> 0]}
                    \cup {[exists |-> TRUE, lines |-> l, mtime |-> 0] : l \in LogsOf(MaxLogLines)}
    /\ log_backups = <<>>
    /\ requests = [t \in Threads |-> IdleRequest]
    /\ server = [module |-> "app", threaded |-> TRUE]

\* log_monitor.get_recent_logs(lines, 'script'): [] for a missing file and for
\* a file that cannot be read
GetRecentLogs ==
    /\ \E lines \in LineCounts, rd \in {"ok", "fails"} :
          /\ rd = "fails" => log_file.exists
          /\ query' = [op |-> "get_recent_logs", lines |-> lines, read |-> rd,
                       logs |-> IF ~log_file.exists \/ rd = "fails" THEN <<>>
                                ELSE StripAll(LastLines(log_file.lines, lines))]
    /\ UNCHANGED <<ruleVars, metricVars, log_file, log_backups, requests, server>>

NextLogs == GetRecentLogs

SpecLogs == InitLogs /\ [][NextLogs]_vars

\* a line without the newline that ends it
Chomp(line) ==
    IF line # <<>> /\ line[Len(line)] = NL THEN SubSeq(line, 1, Len(line) - 1) ELSE line

(* C14: for every requested count n >= 0, tail returns exactly the last     *)
(* min(n, number of lines) lines of the file in file order, never more than *)
(* n lines, and the empty sequence when the file does not exist or cannot   *)
(* be read.                                                                 *)
TailReturnsLastLines ==
    (query.op = "get_recent_logs" /\ query.lines >= 0) =>
        IF ~log_file.exists \/ query.read # "ok" THEN query.logs = <<>>
        ELSE LET total == Len(log_file.lines)
                 k == Min(query.lines, total)
             IN  /\ Len(query.logs) = k
                 /\ Len(query.logs) <= query.lines
                 /\ \A i \in 1..Len(query.logs) :
                       (total - k + i) \in 1..total
                          => query.logs[i] = Chomp(log_file.lines[total - k + i])

(***************************************************************************)
(* OperationMetrics.get_metrics and get_dashboard_stats, and SpecStats:    *)
(* the journal read back between record_* calls                            *)
(***************************************************************************)
\* record_* calls in one run
MaxStatCalls == 4

\* the calls api_execute makes: durations in milliseconds
StatCalls ==
    { [command |-> "music-storage-manager.zsh -n", returncode |-> 0, duration |-> 1200,
       dry_run |-> TRUE],
      [command |-> "music-storage-manager.zsh -n", returncode |-> 0, duration |-> 4,
       dry_run |-> TRUE],
      [command |-> "music-storage-manager.zsh", returncode |-> 1, duration |-> 2000,
       dry_run |-> FALSE] }

\* the values of the request argument `limit`
Limits == {0 - 1, 0, 1, 2, 50}

\* operations[:limit]
FirstItems(operations, limit) ==
    SubSeq(operations, 1,
           IF limit >= 0 THEN Min(limit, Len(operations))
           ELSE IF Len(operations) + limit > 0 THEN Len(operations) + limit ELSE 0)

\* round(): the quotient num / den to the nearest integer, a tie to the even one
RoundHalfEven(num, den) ==
    LET q == num \div den
        r == num % den
    IN  IF 2 * r < den THEN q
        ELSE IF 2 * r > den THEN q + 1
        ELSE IF q % 2 = 0 THEN q ELSE q + 1

\* a success rate cut off after the first decimal
SuccessRateTruncated(summary) ==
    IF summary.total > 0 THEN (summary.success * 1000) \div summary.total ELSE 0

\* round(success / total * 100 if total > 0 else 0, 1), in tenths of a percent
SuccessRate(summary) ==
    IF summary.total > 0 THEN RoundHalfEven(summary.success * 1000, summary.total) ELSE 0

\* [op['duration'] for op in operations if op.get('duration')]: the durations
\* that are neither None nor 0.0, in hundredths of a second
TruthyDurations(operations) ==
    LET kept == SelectSeq(operations,
                          LAMBDA op : op.duration # None /\ op.duration # Some(0))
    IN  [i \in 1..Len(kept) |-> kept[i].duration[1]]

RECURSIVE Sum(_)
Sum(numbers) == IF numbers = <<>> THEN 0 ELSE Head(numbers) + Sum(Tail(numbers))

\* round(sum(durations) / len(durations) if durations else 0, 2), in hundredths
AvgDuration(operations) ==
    LET durations == TruthyDurations(operations)
    IN  IF durations # <<>> THEN RoundHalfEven(Sum(durations), Len(durations)) ELSE 0

\* operation_metrics.get_metrics(limit), as api_metrics calls it
GetMetrics ==
    /\ \E limit \in Limits, rd \in ReadOutcomes :
          LET metrics == LoadMetrics(rd)
          IN  query' = [op |-> "get_metrics", limit |-> limit, read |-> rd,
                        operations |-> FirstItems(metrics.operations, limit),
                        summary |-> metrics.summary,
                        success_rate |-> SuccessRate(metrics.summary)]
    /\ UNCHANGED <<ruleVars, metricVars, log_file, log_backups, requests, server>>

\* operation_metrics.get_dashboard_stats(): its all_time and avg_duration (the
\* counts by day and week and the error codes are not part of the model)
GetDashboardStats ==
    /\ \E rd \in ReadOutcomes :
          LET metrics == LoadMetrics(rd)
          IN  query' = [op |-> "get_dashboard_stats", read |-> rd,
                        all_time |-> metrics.summary,
                        avg_duration |-> AvgDuration(metrics.operations)]
    /\ UNCHANGED <<ruleVars, metricVars, log_file, log_backups, requests, server>>

InitStats ==
    /\ RulesUnused
    /\ MetricsInit
    /\ ServiceIdle

StatsOperation ==
    /\ clock < MaxStatCalls
    /\ \E c \in StatCalls :
          RecordOperation(c.command, c.returncode, c.duration, c.dry_run, "ok", "ok")

StatsTimeout ==
    /\ clock < MaxStatCalls
    /\ RecordTimeout("music-storage-manager.zsh", "ok", "ok")

NextStats == StatsOperation \/ StatsTimeout \/ GetMetrics \/ GetDashboardStats

SpecStats == InitStats /\ [][NextStats]_vars

(***************************************************************************)
(* Properties of the journal read back                                     *)
(***************************************************************************)
\* the step is a call of the given read-only operation that read the journal
Queried(op) == query' # query /\ query'.op = op /\ query'.read = "ok"

IsPrefix(a, b) == Len(a) <= Len(b) /\ a = SubSeq(b, 1, Len(a))

(* C15: for every journal and every integer limit, getMetrics(limit)        *)
(* returns at most limit operations (none for a limit below 1), the newest  *)
(* entries of the detail list newest first (a prefix of the stored list),   *)
(* and does not modify the stored journal.                                  *)
GetMetricsAtMostLimit ==
    [][ Queried("get_metrics") =>
          /\ Len(query'.operations) <= (IF query'.limit > 0 THEN query'.limit ELSE 0)
          /\ IsPrefix(query'.operations, Operations)
          /\ metrics_file' = metrics_file ]_vars

(* C16: successRate is 0 when summary.total = 0 and otherwise               *)
(* success / total * 100 rounded to one decimal (total 4, success 3: 75.0), *)
(* so it lies between 0 and 100; in tenths of a percent here.               *)
SuccessRateDefined ==
    query.op = "get_metrics" =>
        LET total == query.summary.total
            success == query.summary.success
            rate == query.success_rate
        IN  /\ total = 0 => rate = 0
            /\ total > 0 =>
                  /\ 2 * (rate * total - success * 1000) <= total
                  /\ 2 * (success * 1000 - rate * total) <= total
            /\ (total = 4 /\ success = 3) => rate = 750
            /\ 0 <= rate /\ rate <= 1000

SuccessRateDefinedWitness ==
    /\ query.op = "get_metrics"
    /\ query.read = "ok"
    /\ query.summary.total = 4
    /\ query.summary.success = 3
    /\ query.success_rate = 750

\* the durations of the entries that have one, in hundredths of a second
NonNullDurations(operations) ==
    LET kept == SelectSeq(operations, LAMBDA op : op.duration # None)
    IN  [i \in 1..Len(kept) |-> kept[i].duration[1]]

(* C17: avgDuration is the sum of the durations divided by their number,    *)
(* over exactly the retained entries whose duration is not null (an entry   *)
(* with the stored duration 0 included, timeout entries excluded), rounded  *)
(* to two decimals, and 0 when there is no such entry.                      *)
AvgDurationOverNonNull ==
    [][ Queried("get_dashboard_stats") =>
          LET durations == NonNullDurations(Operations)
              n == Len(durations)
              avg == query'.avg_duration
          IN  /\ n = 0 => avg = 0
              /\ n > 0 =>
                    /\ 2 * (avg * n - Sum(durations)) <= n
                    /\ 2 * (Sum(durations) - avg * n) <= n ]_vars

(***************************************************************************)
(* api_execute, step by step, on the threads of the server, and            *)
(* SpecExecute: one POST /api/execute per thread                           *)
(***************************************************************************)
\* the module served and the threading of the server: app.py and
\* simple_app.py each define the route, and app.run() handles requests on
\* parallel threads or one at a time depending on the Flask it runs on
Servers == [module : {"app", "simple_app"}, threaded : BOOLEAN]

\* the script runs in no thread, and no thread is between its journal read and write
Quiet(t) == \A u \in Threads \ {t} : requests[u].pc \in {"idle", "responded"}

\* I/O failures of the journal so far
JournalFaults ==
    Cardinality({t \in Threads : requests[t].read = "fails"})
    + Cardinality({t \in Threads : requests[t].write \in {"open_fails", "dump_fails"}})

\* the request arrives, the command is built and subprocess.run starts
ExecuteStart(t) ==
    /\ requests[t].pc = "idle"
    /\ server.threaded \/ Quiet(t)
    /\ requests' = [requests EXCEPT ![t].pc = "running"]
    /\ UNCHANGED <<ruleVars, metricVars, query, log_file, log_backups, server>>

\* the script is not there: app.py answers 404 before running anything,
\* simple_app.py runs into the exception of subprocess.run and answers 500
ExecuteNoScript(t) ==
    /\ requests[t].pc = "idle"
    /\ server.threaded \/ Quiet(t)
    /\ requests' = [requests EXCEPT ![t].pc = "responded", ![t].kind = "no_script",
                                    ![t].status = IF server.module = "app" THEN 404 ELSE 500]
    /\ UNCHANGED <<ruleVars, metricVars, query, log_file, log_backups, server>>

\* subprocess.run returns within the timeout: app.py goes on to
\* record_operation, simple_app.py answers at once
ExecuteCompletes(t) ==
    /\ requests[t].pc = "running"
    /\ \E returncode \in ReturnCodes :
          requests' = [requests EXCEPT
              ![t].kind = "completed",
              ![t].returncode = returncode,
              ![t].pc = IF server.module = "app" THEN "record" ELSE "responded",
              ![t].status = IF server.module = "app" THEN 0 ELSE 200]
    /\ UNCHANGED <<ruleVars, metricVars, query, log_file, log_backups, server>>

\* subprocess.run raises TimeoutExpired after 180 s: app.py goes on to
\* record_timeout, simple_app.py answers 408 at once
ExecuteTimesOut(t) ==
    /\ requests[t].pc = "running"
    /\ requests' = [requests EXCEPT
          ![t].kind = "timeout",
          ![t].returncode = 0 - 1,
          ![t].pc = IF server.module = "app" THEN "record" ELSE "responded",
          ![t].status = IF server.module = "app" THEN 0 ELSE 408]
    /\ UNCHANGED <<ruleVars, metricVars, query, log_file, log_backups, server>>

\* subprocess.run raises another exception: answered 500, nothing recorded
ExecuteFails(t) ==
    /\ requests[t].pc = "running"
    /\ requests' = [requests EXCEPT ![t].kind = "error", ![t].pc = "responded",
                                    ![t].status = 500]
    /\ UNCHANGED <<ruleVars, metricVars, query, log_file, log_backups, server>>

\* record_operation / record_timeout, first half: _load_metrics, the new entry
\* inserted, the list capped, the summary counted
RecordLoad(t) ==
    /\ requests[t].pc = "record"
    /\ \E rd \in ReadOutcomes :
          LET metrics == LoadMetrics(rd)
              operation ==
                  IF requests[t].kind = "timeout"
                  THEN TimeoutEntry("music-storage-manager.zsh -n")
                  ELSE OperationEntry("music-storage-manager.zsh -n",
                                      requests[t].returncode, 1234, TRUE)
              summary ==
                  IF requests[t].kind = "timeout" THEN TimeoutSummary(metrics.summary)
                  ELSE OperationSummary(metrics.summary, requests[t].returncode)
          IN  /\ rd = "fails" => JournalFaults < MaxFaults
              /\ requests' = [requests EXCEPT
                    ![t].pc = "save",
                    ![t].read = rd,
                    ![t].calls = Append(@, IF requests[t].kind = "timeout"
                                           THEN "record_timeout" ELSE "record_operation"),
                    ![t].updated =
                        [operations |-> KeepNewest(InsertFirst(metrics.operations, operation)),
                         summary |-> summary]]
    /\ clock' = clock + 1
    /\ UNCHANGED <<ruleVars, metrics_file, call, history, script, query, log_file, log_backups, server>>

\* record_operation / record_timeout, second half: _save_metrics, which logs a
\* failure and returns
RecordSave(t) ==
    /\ requests[t].pc = "save"
    /\ \E wr \in WriteOutcomes :
          /\ wr # "ok" => JournalFaults < MaxFaults
          /\ metrics_file' = SaveMetrics(requests[t].updated, wr)
          /\ history' = IF wr = "ok"
                        THEN Append(history, requests[t].updated.operations[1])
                        ELSE history
          /\ requests' = [requests EXCEPT ![t].pc = "respond", ![t].write = wr]
    /\ UNCHANGED <<ruleVars, clock, call, script, query, log_file, log_backups, server>>

\* the response of app.py after the journal call returned: 200 with status
\* 'success' for a run that completed, 408 for a timeout
ExecuteRespond(t) ==
    /\ requests[t].pc = "respond"
    /\ requests' = [requests EXCEPT
          ![t].pc = "responded",
          ![t].status = IF requests[t].kind = "timeout" THEN 408 ELSE 200]
    /\ UNCHANGED <<ruleVars, metricVars, query, log_file, log_backups, server>>

InitExecute ==
    /\ RulesUnused
    /\ MetricsInit
    /\ query = NoQuery
    /\ log_file = [exists |-> FALSE, lines |-> <<>>, mtime |-> 0]
    /\ log_backups = <<>>
    /\ requests = [t \in Threads |-> IdleRequest]
    /\ server \in Servers

NextExecute ==
    \E t \in Threads :
        \/ ExecuteStart(t)
        \/ ExecuteNoScript(t)
        \/ ExecuteCompletes(t)
        \/ ExecuteTimesOut(t)
        \/ ExecuteFails(t)
        \/ RecordLoad(t)
        \/ RecordSave(t)
        \/ ExecuteRespond(t)

SpecExecute == InitExecute /\ [][NextExecute]_vars

(***************************************************************************)
(* Properties of api_execute                                               *)
(***************************************************************************)
(* C18: when writing the journal file fails in recordOperation or           *)
(* recordTimeout the failure reaches the caller, which does not go on as    *)
(* after a recorded entry, and a mutation whose read of the journal failed  *)
(* does not replace the stored counters by zeroed ones.                     *)
PersistenceFailurePropagates ==
    [][ \A t \in Threads :
          (requests[t].pc = "save" /\ requests'[t].pc # "save") =>
              /\ requests'[t].write # "ok" => requests'[t].pc # "respond"
              /\ requests[t].read = "fails" =>
                    \/ metrics_file' = metrics_file
                    \/ Summary'.total > Summary.total ]_vars

(* C19: an invocation that exceeds the timeout has recorded exactly one     *)
(* timeout entry and no ordinary entry when its response is returned, and   *)
(* the response is 408, not 500; an invocation that completes has recorded  *)
(* exactly one ordinary entry and no timeout entry.                         *)
TimeoutRecordedBeforeResponse ==
    \A t \in Threads :
        requests[t].pc = "responded" =>
            /\ requests[t].kind = "timeout" =>
                  (requests[t].calls = <<"record_timeout">> /\ requests[t].status = 408)
            /\ requests[t].kind = "completed" =>
                  requests[t].calls = <<"record_operation">>

(* C20: invocations are serialized: in every reachable state at most one    *)
(* external process is running and at most one journal mutation is between  *)
(* its read and its write, also when several requests arrive at once.       *)
InvocationsSerialized ==
    /\ Cardinality({t \in Threads : requests[t].pc = "running"}) <= 1
    /\ Cardinality({t \in Threads : requests[t].pc = "save"}) <= 1

\* the threads whose record_* call has written the journal
Saved == {t \in Threads : requests[t].write = "ok"}

\* two record_* calls overlapped: both had read the journal before either wrote it
Overlapped ==
    \E t, u \in Threads :
        /\ t # u
        /\ requests[t].write = "ok" /\ requests[u].write = "ok"
        /\ requests[t].read = "ok" /\ requests[u].read = "ok"
        /\ requests[t].updated.summary.total = requests[u].updated.summary.total

(* C21: journal mutations are unprotected read-modify-write: when k calls   *)
(* run strictly one after another (and no I/O fails) summary.total grows by *)
(* exactly k and every entry is kept, newest first; calls that overlap can  *)
(* only lose entries, and a journal holding fewer entries than were written *)
(* comes from calls that overlapped.                                        *)
UnprotectedReadModifyWrite ==
    JournalFaults = 0 =>
        LET k == Len(history)
        IN  /\ k = Cardinality(Saved)
            /\ Summary.total <= k
            /\ Len(Operations) = Summary.total
            /\ ~server.threaded =>
                  /\ Summary.total = k
                  /\ \A i \in 1..k : Operations[i] = history[k - i + 1]
            /\ Summary.total < k => (server.threaded /\ Overlapped)

\* the lost update: two calls read the journal before either wrote it, and it
\* ends with one of the two entries and total 1
UnprotectedReadModifyWriteWitness ==
    /\ JournalFaults = 0
    /\ Overlapped
    /\ \A t \in Threads : requests[t].pc = "responded"
    /\ Len(history) = 2
    /\ Summary.total = 1
    /\ Operations = <<history[2]>>

(***************************************************************************)
(* api_clear_logs and cleanup_old_backups: the log file and its backups    *)
(***************************************************************************)
\* backup_files[5:]
KEEP_BACKUPS == 5

\* seconds the clock passes through while logs are cleared
MaxLogNow == 5

\* clear-logs requests made
MaxClears == 6

\* f"[{datetime.now().strftime('%Y-%m-%d %H:%M:%S')}] Log file cleared\n"
ClearedLine(t) ==
    <<"[", ToString(t), "]", SPACE, "L", "o", "g", SPACE, "f", "i", "l", "e", SPACE,
      "c", "l", "e", "a", "r", "e", "d", NL>>

\* backup_files.sort(key=getmtime, reverse=True); files_to_remove = backup_files[5:]
FilesToRemove(files) ==
    {n \in DOMAIN files :
        Cardinality({m \in DOMAIN files : files[m].mtime > files[n].mtime}) >= KEEP_BACKUPS}

\* cleanup_old_backups: os.remove of each file to remove; a remove that fails is
\* logged and the file stays
CleanupOldBackups(files, failed) ==
    [n \in DOMAIN files \ (FilesToRemove(files) \ failed) |-> files[n]]

\* no clear-logs request made yet; faults: the I/O failures met by the requests
NoClear == [op |-> "clear_logs", status |-> 0, faults |-> 0]

\* POST /api/clear-logs: rename the log file to its backup name, clean up the old
\* backups, write a new log file; any exception is answered with 500. The
\* handler shares no file with save_rules: the requests are taken once the
\* saves have been made, when rule-file backups exist beside the log backups.
ApiClearLogs ==
    /\ log_file.mtime < MaxClears
    /\ save.pc = "idle" /\ save.n = MaxSaves
    /\ \E rename \in {"ok", "fails"}, open \in {"ok", "fails"} :
          /\ rename = "fails" => log_file.exists
          /\ (rename = "fails" \/ open = "fails") => query.faults < MaxFaults
          /\ IF rename = "fails"
             THEN /\ query' = [op |-> "clear_logs", status |-> 500,
                               faults |-> query.faults + 1]
                  /\ UNCHANGED <<log_file, log_backups>>
             ELSE LET renamed ==
                          IF log_file.exists
                          THEN (now :> [mtime |-> log_file.mtime, lines |-> log_file.lines])
                                   @@ log_backups
                          ELSE log_backups
                  IN  \E failed \in SUBSET FilesToRemove(renamed) :
                          /\ query.faults + Cardinality(failed) + (IF open = "ok" THEN 0 ELSE 1)
                                 <= MaxFaults
                          /\ log_backups' = CleanupOldBackups(renamed, failed)
                          /\ log_file' =
                                 IF open = "ok"
                                 THEN [exists |-> TRUE, lines |-> <<ClearedLine(now)>>,
                                       mtime |-> log_file.mtime + 1]
                                 ELSE [exists |-> FALSE, lines |-> <<>>,
                                       mtime |-> log_file.mtime + 1]
                          /\ query' = [op |-> "clear_logs",
                                       status |-> IF open = "ok" THEN 200 ELSE 500,
                                       faults |-> query.faults + Cardinality(failed)
                                                    + (IF open = "ok" THEN 0 ELSE 1)]
    /\ UNCHANGED <<ruleVars, metricVars, requests, server>>

\* datetime.now() moves to the next second
LogTick ==
    /\ now < MaxLogNow
    /\ now' = now + 1
    /\ UNCHANGED <<rules_file, backups, save, response>>
    /\ UNCHANGED <<metricVars, serviceVars>>

InitRetention ==
    /\ rules_file = [exists |-> TRUE, content |-> LEGACY_FILE]
    /\ RulesIdle
    /\ MetricsInit
    /\ query = NoClear
    /\ log_file \in {[exists |-> FALSE, lines |-> <<>>, mtime |-> 0],
                     [exists |-> TRUE, lines |-> <<<<"a", NL>>>>, mtime |-> 0]}
    /\ log_backups = <<>>
    /\ requests = [t \in Threads |-> IdleRequest]
    /\ server = [module |-> "app", threaded |-> TRUE]

NextRetention ==
    \/ ApiRulesPost(<<RULE_UVI>>)
    \/ SaveReadOriginal
    \/ SaveWriteBackup
    \/ SaveOpenRulesFile
    \/ SaveWriteRules
    \/ ApiRulesRespond
    \/ ApiClearLogs
    \/ LogTick

SpecRetention == InitRetention /\ [][NextRetention]_vars

\* a clear-logs request got past the rename in this step
Cleared == log_file'.mtime # log_file.mtime

\* the log backups a clear-logs request chooses from: those present before it
\* and the one it makes
Candidates ==
    IF log_file.exists
    THEN (now :> [mtime |-> log_file.mtime, lines |-> log_file.lines]) @@ log_backups
    ELSE log_backups

\* after a clear-logs request at most 5 log backups exist, the backup just made
\* is one of them, and every backup kept is newer than every backup removed
LogBackupsCapped ==
    Cleared =>
        /\ Cardinality(DOMAIN log_backups') <= KEEP_BACKUPS
        /\ DOMAIN log_backups' \subseteq DOMAIN Candidates
        /\ \A n \in DOMAIN log_backups' : log_backups'[n] = Candidates[n]
        /\ log_file.exists => now \in DOMAIN log_backups'
        /\ \A n \in DOMAIN log_backups', m \in DOMAIN Candidates \ DOMAIN log_backups' :
              Candidates[m].mtime < Candidates[n].mtime

\* no step deletes or overwrites a rule-file backup
RuleBackupsKept ==
    \A t \in DOMAIN backups : t \in DOMAIN backups' /\ backups'[t] = backups[t]

(* C22: retention capping applies to the log backups only: after every      *)
(* clear-logs request at most 5 log backups exist and they are the 5 newest *)
(* by modification time, the backup just made among them; and no step of    *)
(* save, clear-logs or cleanup deletes or overwrites a rule-file backup, so *)
(* the number of rule-file backups never decreases.                         *)
RetentionLogBackupsOnly ==
    [][ /\ LogBackupsCapped
        /\ RuleBackupsKept
        /\ Cardinality(DOMAIN backups') >= Cardinality(DOMAIN backups) ]_vars

====
